---- MODULE Spec2Model ----
(***************************************************************************)
(* RepoFetch: tree acquisition (GitHubClient.getTree with branch fallback  *)
(* and rate-limit tracking), filterTree / sortEntries, the batched         *)
(* fetchContent, and the repofetch entry point that chains them.           *)
(*                                                                         *)
(* Strings are sequences of one-character tokens so that split, extname,   *)
(* toLowerCase, includes and localeCompare are computed, not assumed.      *)
(* "e_acute" is U+00E9 and "acute" is the combining U+0301.                *)
(***************************************************************************)
EXTENDS Integers, Sequences, FiniteSets, TLC

(* ------------------------------ bounds --------------------------------- *)
\* longest entry list handed to sortEntries in SpecSort
MaxSortLen == 3
\* longest entry list handed to fetchContent in SpecFetch
MaxEntries == 3
\* largest concurrency option tried
MaxConcurrency == 2

(* ------------------------- generic sequence helpers -------------------- *)
Min(a, b) == IF a < b THEN a ELSE b

Range(s) == {s[k] : k \in 1..Len(s)}

\* three-way lexicographic comparison of two sequences of integers
RECURSIVE LexCmp(_, _)
LexCmp(x, y) ==
    IF x = <<>> /\ y = <<>> THEN 0
    ELSE IF x = <<>> THEN -1
    ELSE IF y = <<>> THEN 1
    ELSE IF Head(x) < Head(y) THEN -1
    ELSE IF Head(x) > Head(y) THEN 1
    ELSE LexCmp(Tail(x), Tail(y))

(* ------------------------------ strings -------------------------------- *)
\* String.prototype.split("/")
RECURSIVE SplitFrom(_, _)
SplitFrom(str, cur) ==
    IF str = <<>> THEN <<cur>>
    ELSE IF Head(str) = "/" THEN <<cur>> \o SplitFrom(Tail(str), <<>>)
    ELSE SplitFrom(Tail(str), Append(cur, Head(str)))

Split(str) == SplitFrom(str, <<>>)

\* canonical decomposition: the precomposed letter becomes base + combining mark
RECURSIVE NFD(_)
NFD(str) ==
    IF str = <<>> THEN <<>>
    ELSE IF Head(str) = "e_acute" THEN <<"e", "acute">> \o NFD(Tail(str))
    ELSE <<Head(str)>> \o NFD(Tail(str))

IsUpper(c) == c \in {"T", "S"}

ToLowerChar(c) == IF c = "T" THEN "t" ELSE IF c = "S" THEN "s" ELSE c

\* String.prototype.toLowerCase
ToLowerCase(str) == [k \in 1..Len(str) |-> ToLowerChar(str[k])]

\* primary collation weight of a base character (punctuation before letters)
PrimaryWeight(c) ==
    CASE c = "/" -> 1
      [] c = "*" -> 2
      [] c = "." -> 3
      [] c = "a" -> 4
      [] c = "b" -> 5
      [] c = "e" -> 6
      [] c \in {"s", "S"} -> 7
      [] c \in {"t", "T"} -> 8
      [] OTHER -> 9

\* collation elements of a decomposed string: one <<primary, secondary,
\* tertiary>> triple per base character; a combining mark raises the
\* secondary weight of the element before it
RECURSIVE CollationElements(_, _)
CollationElements(str, acc) ==
    IF str = <<>> THEN acc
    ELSE IF Head(str) = "acute"
         THEN IF acc = <<>>
              THEN CollationElements(Tail(str), <<<<0, 1, 0>>>>)
              ELSE CollationElements(Tail(str),
                       [acc EXCEPT ![Len(acc)] = <<@[1], 1, @[3]>>])
         ELSE CollationElements(Tail(str),
                  Append(acc, <<PrimaryWeight(Head(str)), 0,
                                IF IsUpper(Head(str)) THEN 1 ELSE 0>>))

Level(str, n) ==
    LET ce == CollationElements(NFD(str), <<>>)
    IN  [k \in 1..Len(ce) |-> ce[k][n]]

\* String.prototype.localeCompare: a total ordering that returns 0 for
\* canonically equivalent strings (ECMA-262 22.1.3.12)
localeCompare(x, y) ==
    IF LexCmp(Level(x, 1), Level(y, 1)) # 0 THEN LexCmp(Level(x, 1), Level(y, 1))
    ELSE IF LexCmp(Level(x, 2), Level(y, 2)) # 0 THEN LexCmp(Level(x, 2), Level(y, 2))
    ELSE LexCmp(Level(x, 3), Level(y, 3))

(* ---------------------------- sortEntries ------------------------------ *)
\* the comparator's for loop, from position i on
RECURSIVE CompareFrom(_, _, _)
CompareFrom(aParts, bParts, i) ==
    IF i > Min(Len(aParts), Len(bParts)) THEN Len(aParts) - Len(bParts)
    ELSE LET aIsLast == (i = Len(aParts))
             bIsLast == (i = Len(bParts))
             cmp     == localeCompare(aParts[i], bParts[i])
         IN  IF ~aIsLast /\ bIsLast THEN -1
             ELSE IF aIsLast /\ ~bIsLast THEN 1
             ELSE IF cmp # 0 THEN cmp
             ELSE CompareFrom(aParts, bParts, i + 1)

\* the comparator passed to Array.prototype.sort
compareEntries(a, b) == CompareFrom(Split(a.path), Split(b.path), 1)

\* Array.prototype.sort is stable: an element goes after every element
\* that does not compare greater than it
RECURSIVE InsertStable(_, _)
InsertStable(sorted, e) ==
    IF sorted = <<>> THEN <<e>>
    ELSE IF compareEntries(Head(sorted), e) <= 0
         THEN <<Head(sorted)>> \o InsertStable(Tail(sorted), e)
         ELSE <<e>> \o sorted

RECURSIVE SortFrom(_, _)
SortFrom(list, acc) ==
    IF list = <<>> THEN acc
    ELSE SortFrom(Tail(list), InsertStable(acc, Head(list)))

sortEntries(list) == SortFrom(list, <<>>)

(* ------------------------------ data ----------------------------------- *)
\* size?: number -- an absent size
NoSize == -1
\* extension?: string -- an absent field
Undefined == <<"undefined">>
\* content?: string -- an absent field
NoContent == "undefined"
\* the state of a call that has not returned a list
NoList == <<[path |-> <<>>, type |-> "none", sha |-> "none", size |-> NoSize,
             extension |-> Undefined, content |-> NoContent]>>

FileEntry(path, type, sha, size, extension) ==
    [path |-> path, type |-> type, sha |-> sha, size |-> size,
     extension |-> extension, content |-> NoContent]

\* paths handed to sortEntries: a directory and its child, two plain names,
\* and the composed and decomposed spellings of one name
SortPaths ==
    { <<"s">>, <<"s", "/", "a">>, <<"b">>, <<"a", "/", "b">>,
      <<"e_acute">>, <<"e", "acute">> }

SortPool ==
    { IF p = <<"s">> THEN FileEntry(p, "directory", "d", NoSize, Undefined)
                      ELSE FileEntry(p, "file", "x", 5, Undefined)
        : p \in SortPaths }

\* entries handed to fetchContent. An object id is the hash of the blob, so
\* entries that share a sha share size and body; "a" and "b" are two copies
\* of one blob
FetchPool ==
    { FileEntry(<<"a">>, "file", "x", 5, Undefined),
      FileEntry(<<"b">>, "file", "x", 5, Undefined),
      FileEntry(<<"s">>, "directory", "d", NoSize, Undefined),
      FileEntry(<<"s", "/", "a">>, "file", "big", 20, Undefined),
      FileEntry(<<"s", "/", "b">>, "file", "y", 0, Undefined) }

\* all lists of at most n pairwise different members of pool
ListsOver(pool, n) ==
    UNION { { f \in [1..k -> pool] : \A p, q \in 1..k : p # q => f[p] # f[q] }
              : k \in 0..n }

(* ----------------------------- filterTree ----------------------------- *)
TreeItem(path, type, sha, size) ==
    [path |-> path, type |-> type, sha |-> sha, size |-> size]

\* path.basename
basename(filePath) == Split(filePath)[Len(Split(filePath))]

\* path.extname: from the last "." of the final segment on, "" when there is
\* none or when it is the segment's first character
extname(filePath) ==
    LET base == basename(filePath)
        dots == {k \in 1..Len(base) : base[k] = "."}
        last == CHOOSE k \in dots : \A j \in dots : j <= k
    IN  IF dots = {} \/ base = <<".", ".">> THEN <<>>
        ELSE IF last = 1 THEN <<>>
        ELSE SubSeq(base, last, Len(base))

getExtension(filePath) == ToLowerCase(extname(filePath))

\* String.prototype.includes
includes(str, part) ==
    \E k \in 0..(Len(str) - Len(part)) : SubSeq(str, k + 1, k + Len(part)) = part

\* RegExp("^" + pattern with "." escaped and "*" turned into ".*" + "$").test(str)
RECURSIVE regexTest(_, _)
regexTest(pattern, str) ==
    IF pattern = <<>> THEN str = <<>>
    ELSE IF Head(pattern) = "*"
         THEN \E k \in 0..Len(str) :
                  regexTest(Tail(pattern), SubSeq(str, k + 1, Len(str)))
         ELSE /\ str # <<>>
              /\ Head(str) = Head(pattern)
              /\ regexTest(Tail(pattern), Tail(str))

matchesPattern(filePath, pattern) ==
    IF "*" \in Range(pattern)
    THEN regexTest(pattern, filePath) \/ regexTest(pattern, basename(filePath))
    ELSE includes(filePath, pattern) \/ includes(basename(filePath), pattern)

\* a normalisation that adds the dot but keeps the case of the value
normalizedExts_KeepCase(extensions) ==
    { IF e # <<>> /\ Head(e) = "." THEN e ELSE <<".">> \o e : e \in Range(extensions) }

\* extensions.map(e => e.startsWith(".") ? e.toLowerCase() : "." + e.toLowerCase())
normalizedExts(extensions) ==
    { IF e # <<>> /\ Head(e) = "." THEN ToLowerCase(e) ELSE <<".">> \o ToLowerCase(e)
        : e \in Range(extensions) }

\* a loop body in which an include match shields the item from the excludes
Kept_IncludeWins(item, o) ==
    LET isFile == item.type = "blob"
        isDir  == item.type = "tree"
        ext    == getExtension(item.path)
    IN  /\ ~(o.type = "file" /\ ~isFile)
        /\ ~(o.type = "dir" /\ ~isDir)
        /\ (Len(o.include) > 0 =>
                \E k \in 1..Len(o.include) : matchesPattern(item.path, o.include[k]))
        /\ (Len(o.exclude) > 0 /\ Len(o.include) = 0 =>
                ~\E k \in 1..Len(o.exclude) : matchesPattern(item.path, o.exclude[k]))
        /\ (isFile =>
                /\ (Len(o.extensions) > 0 => ext \in normalizedExts(o.extensions))
                /\ ~(/\ o.maxFileSize # NoSize /\ o.maxFileSize # 0
                     /\ item.size # NoSize /\ item.size # 0
                     /\ item.size > o.maxFileSize))

\* does the loop body reach entries.push for this item?  An option that is
\* undefined and one that is an empty list behave alike and are both <<>>;
\* maxFileSize undefined is NoSize
Kept(item, o) ==
    LET isFile == item.type = "blob"
        isDir  == item.type = "tree"
        ext    == getExtension(item.path)
    IN  /\ ~(o.type = "file" /\ ~isFile)
        /\ ~(o.type = "dir" /\ ~isDir)
        /\ (Len(o.include) > 0 =>
                \E k \in 1..Len(o.include) : matchesPattern(item.path, o.include[k]))
        /\ (Len(o.exclude) > 0 =>
                ~\E k \in 1..Len(o.exclude) : matchesPattern(item.path, o.exclude[k]))
        /\ (isFile =>
                /\ (Len(o.extensions) > 0 => ext \in normalizedExts(o.extensions))
                /\ ~(/\ o.maxFileSize # NoSize /\ o.maxFileSize # 0
                     /\ item.size # NoSize /\ item.size # 0
                     /\ item.size > o.maxFileSize))

\* the object pushed for an item that is kept
ToEntry(item) ==
    LET isFile == item.type = "blob"
        ext    == getExtension(item.path)
    IN  FileEntry(item.path, IF isFile THEN "file" ELSE "directory", item.sha,
                  item.size, IF isFile /\ ext # <<>> THEN ext ELSE Undefined)

RECURSIVE filterTree(_, _)
filterTree(items, o) ==
    IF items = <<>> THEN <<>>
    ELSE IF Kept(Head(items), o)
         THEN <<ToEntry(Head(items))>> \o filterTree(Tail(items), o)
         ELSE filterTree(Tail(items), o)

(* --------------------------- HTTP responses ---------------------------- *)
\* null (the rate-limit snapshot before any response, filterShas not given)
Null == [null |-> TRUE]

\* Headers.get of a header the response does not carry
NoHeader == ""

NoHeaders == [limit |-> NoHeader, remaining |-> NoHeader, used |-> NoHeader,
              reset |-> NoHeader]

HeadersA == [limit |-> "60", remaining |-> "59", used |-> "1", reset |-> "7"]

HeadersB == [limit |-> "60", remaining |-> "0", used |-> "60", reset |-> "9"]

\* a response that carries only some of the four headers
HeadersPartial == [limit |-> "60", remaining |-> NoHeader, used |-> "1",
                   reset |-> NoHeader]

\* parseInt(text, 10) on the header values used here
parseInt(text) ==
    CASE text = "60" -> 60
      [] text = "59" -> 59
      [] text = "9" -> 9
      [] text = "7" -> 7
      [] text = "1" -> 1
      [] OTHER -> 0

\* Response.ok
Ok(status) == status >= 200 /\ status <= 299

\* a snapshot that is rewritten as soon as the limit header is present
updateRateLimit_AnyHeader(old, h) ==
    IF h.limit # NoHeader
    THEN [limit |-> parseInt(h.limit), remaining |-> parseInt(h.remaining),
          used |-> parseInt(h.used), reset |-> parseInt(h.reset) * 1000]
    ELSE old

\* GitHubClient.updateRateLimit: the snapshot after a response with headers h
updateRateLimit(old, h) ==
    IF h.limit # NoHeader /\ h.remaining # NoHeader /\ h.used # NoHeader
       /\ h.reset # NoHeader
    THEN [limit |-> parseInt(h.limit), remaining |-> parseInt(h.remaining),
          used |-> parseInt(h.used), reset |-> parseInt(h.reset) * 1000]
    ELSE old

\* the base64 text the server holds for a blob
BlobStore(sha) ==
    CASE sha = "x" -> "aGk="
      [] sha = "y" -> ""
      [] sha = "big" -> "QklH"
      [] OTHER -> "Pw=="

\* Buffer.from(text, "base64").toString("utf-8")
Base64Decode(text) ==
    CASE text = "aGk=" -> "hi"
      [] text = "" -> ""
      [] text = "QklH" -> "BIG"
      [] OTHER -> "?"

\* what the server may answer to GET /git/blobs/{sha}
BlobResponses(sha) ==
    { [status |-> 200, content |-> BlobStore(sha), headers |-> HeadersA],
      [status |-> 403, content |-> "", headers |-> HeadersB],
      [status |-> 404, content |-> "", headers |-> HeadersPartial] }

(* ------------------------------ state ---------------------------------- *)
VARIABLES
    pc,            \* where the running call is suspended
    entries,       \* the entry list: argument of sortEntries / fetchContent
    fcOpts,        \* FetchContentOptions of the running fetchContent call
    filesToFetch,  \* positions in entries of the qualifying files, in order
    i,             \* loop index of the batch loop (0-based offset)
    completed,     \* let completed
    results,       \* Map<sha, content>
    inflight,      \* positions in filesToFetch whose blob request is outstanding
    responses,     \* what the server answers to each request issued so far
    batchResults,  \* settled promise of each member of the batch
    progress,      \* calls received by onProgress: <<completed, total, settled>>
    settleOrder,   \* the requests settled so far, in the order they settled
    returned,      \* the list fetchContent / sortEntries returned
    rateLimit,     \* GitHubClient._rateLimit
    httpLog,       \* requests issued so far, in order
    opts,          \* RepoFetchOptions of the running repofetch call
    targetBranch,  \* let targetBranch of getTree
    tree,          \* the TreeResponse getTree returned
    result,        \* the RepoFetchResult repofetch returned
    error,         \* message of the Error the call failed with
    answers,       \* tree-stage responses received so far, in order
    lastWithHeaders \* headers of the latest response that carried all four

fetchVars == <<filesToFetch, i, completed, results, inflight, responses,
               batchResults, progress, settleOrder>>

vars == <<pc, entries, fcOpts, filesToFetch, i, completed, results, inflight,
          responses, batchResults, progress, settleOrder, returned, rateLimit,
          httpLog, opts, targetBranch, tree, result, error, answers,
          lastWithHeaders>>

\* the client's snapshot and the response it is to be compared with
clientVars == <<rateLimit, lastWithHeaders>>

repoVars == <<opts, targetBranch, tree, result, error, answers>>

\* does a response with headers h carry the four rate-limit headers?
CarriesRateLimit(h) ==
    \A f \in {"limit", "remaining", "used", "reset"} : h[f] # NoHeader

\* "this.updateRateLimit(res)" after an awaited fetch resolved with headers h
Receive(h) ==
    /\ rateLimit' = updateRateLimit(rateLimit, h)
    /\ lastWithHeaders' = IF CarriesRateLimit(h) THEN h ELSE lastWithHeaders

(* ---------------------------- fetchContent ----------------------------- *)
DEFAULT_MAX_FILE_SIZE == 10

\* the selection without the size check
Qualifies_NoSizeCheck(e, o) ==
    /\ e.type = "file"
    /\ ~(o.filterShas # Null /\ e.sha \notin o.filterShas.shas)

\* the predicate of entries.filter: does e need its content fetched?
Qualifies(e, o) ==
    /\ e.type = "file"
    /\ ~(e.size # NoSize /\ e.size # 0 /\ e.size > o.maxFileSize)
    /\ ~(o.filterShas # Null /\ e.sha \notin o.filterShas.shas)

\* entries.filter(...), as the positions that pass
SelectFiles(list, o) ==
    LET F[k \in 0..Len(list)] ==
            IF k = 0 THEN <<>>
            ELSE IF Qualifies(list[k], o) THEN Append(F[k - 1], k) ELSE F[k - 1]
    IN  F[Len(list)]

\* a slice that starts on the last member of the group before
Batch_Overlap(ftf, start, o) ==
    (IF start = 0 THEN 1 ELSE start)..Min(start + o.concurrency, Len(ftf))

\* a slice that runs one element too far
Batch_OneMore(ftf, start, o) == (start + 1)..Min(start + o.concurrency + 1, Len(ftf))

\* filesToFetch.slice(start, start + concurrency), as positions of filesToFetch
Batch(ftf, start, o) == (start + 1)..Min(start + o.concurrency, Len(ftf))

\* the promise of one batch member once its response r has arrived:
\* getBlob throws on a non-2xx status, getBlobContent decodes the body
Settle(sha, r) ==
    IF Ok(r.status)
    THEN [status |-> "fulfilled", sha |-> sha, content |-> Base64Decode(r.content),
          reason |-> ""]
    ELSE [status |-> "rejected", sha |-> sha, content |-> NoContent,
          reason |-> "Failed to get blob"]

\* results.set(sha, content)
MapSet(map, key, value) ==
    [k \in (DOMAIN map) \cup {key} |-> IF k = key THEN value ELSE map[k]]

\* the for loop over batchResults: results after the members first..last
RECURSIVE CollectResults(_, _, _, _)
CollectResults(map, settled, first, last) ==
    IF first > last THEN map
    ELSE CollectResults(
             IF settled[first].status = "fulfilled"
             THEN MapSet(map, settled[first].sha, settled[first].content)
             ELSE map,
             settled, first + 1, last)

\* a merge that lays the fetched files out in the order their requests
\* settled instead of their input order
Merge_ByCompletion(list, map) ==
    LET Src(k) == IF \E j \in 1..Len(filesToFetch) : filesToFetch[j] = k
                  THEN filesToFetch[settleOrder[
                           CHOOSE j \in 1..Len(filesToFetch) : filesToFetch[j] = k]]
                  ELSE k
    IN  [k \in 1..Len(list) |->
            IF list[Src(k)].type = "file" /\ list[Src(k)].sha \in DOMAIN map
            THEN [list[Src(k)] EXCEPT !.content = map[list[Src(k)].sha]]
            ELSE list[Src(k)]]

\* entries.map(...): merge the content back into the entries
Merge(list, map) ==
    [k \in 1..Len(list) |->
        IF list[k].type = "file" /\ list[k].sha \in DOMAIN map
        THEN [list[k] EXCEPT !.content = map[list[k].sha]]
        ELSE list[k]]

\* batch.map(...): one getBlobContent per member of the batch starting at
\* offset start; the server's answer to each is fixed here and delivered later
IssueBatch(list, ftf, start, o) ==
    /\ inflight' = Batch(ftf, start, o)
    /\ \E r \in [Batch(ftf, start, o) ->
                    UNION {BlobResponses(e.sha) : e \in Range(list)}] :
          /\ \A k \in Batch(ftf, start, o) : r[k] \in BlobResponses(list[ftf[k]].sha)
          /\ responses' = [k \in 1..Min(start + o.concurrency, Len(ftf)) |->
                               IF k <= start THEN responses[k] ELSE r[k]]
    /\ batchResults' = << >>
    /\ httpLog' = httpLog \o [k \in 1..Cardinality(Batch(ftf, start, o)) |-> "blob"]

\* fetchContent from its first line to its first await (or its early return)
FcEnter(list, o) ==
    /\ entries' = list
    /\ fcOpts' = o
    /\ filesToFetch' = SelectFiles(list, o)
    /\ i' = 0
    /\ completed' = 0
    /\ results' = << >>
    /\ progress' = << >>
    /\ settleOrder' = <<>>
    /\ IF SelectFiles(list, o) = <<>>
       THEN /\ returned' = list
            /\ pc' = "fc_returned"
            /\ inflight' = {}
            /\ batchResults' = << >>
            /\ UNCHANGED <<responses, httpLog>>
       ELSE /\ IssueBatch(list, SelectFiles(list, o), 0, o)
            /\ pc' = "fc_await"
            /\ UNCHANGED returned

\* a direct call of the exported fetchContent
FcCall ==
    /\ pc = "fc_call"
    /\ FcEnter(entries, fcOpts)
    /\ UNCHANGED <<clientVars, repoVars>>

\* the response to one outstanding blob request arrives
BlobSettle ==
    /\ pc = "fc_await"
    /\ \E k \in inflight :
        /\ inflight' = inflight \ {k}
        /\ Receive(responses[k].headers)
        /\ batchResults' =
               [p \in (DOMAIN batchResults) \cup {k} |->
                   IF p = k THEN Settle(entries[filesToFetch[k]].sha, responses[k])
                   ELSE batchResults[p]]
        /\ settleOrder' = Append(settleOrder, k)
    /\ UNCHANGED <<pc, entries, fcOpts, filesToFetch, i, completed, results,
                   responses, progress, returned, httpLog, repoVars>>

\* an observer that is told of fulfilled fetches only
Notify_FulfilledOnly(o, log, done, first, last, total, settled) ==
    IF o.onProgress
    THEN log \o [k \in 1..Cardinality({p \in first..last :
                                          batchResults[p].status = "fulfilled"}) |->
                    <<done + k, total, settled>>]
    ELSE log

\* onProgress?.(completed, total) for each member of the batch just settled
Notify(o, log, done, first, last, total, settled) ==
    IF o.onProgress
    THEN log \o [k \in 1..(last - first + 1) |-> <<done + k, total, settled>>]
    ELSE log

\* a loop whose index advances by one less than the group size
AfterBatch_ShortStep ==
    LET first == i + 1
        last  == Min(i + fcOpts.concurrency, Len(filesToFetch))
    IN  /\ results' = CollectResults(results, batchResults, first, last)
        /\ completed' = completed + (last - first + 1)
        /\ progress' = Notify(fcOpts, progress, completed, first, last,
                              Len(filesToFetch), Len(settleOrder))
        /\ i' = i + fcOpts.concurrency - 1

\* Promise.allSettled resolves: the for loop over batchResults runs
AfterBatch ==
    LET first == i + 1
        last  == Min(i + fcOpts.concurrency, Len(filesToFetch))
    IN  /\ results' = CollectResults(results, batchResults, first, last)
        /\ completed' = completed + (last - first + 1)
        /\ progress' = Notify(fcOpts, progress, completed, first, last,
                              Len(filesToFetch), Len(settleOrder))
        /\ i' = i + fcOpts.concurrency

\* ... and the loop goes round: the next batch is issued
FcNextBatch ==
    /\ pc = "fc_await"
    /\ inflight = {}
    /\ i + fcOpts.concurrency < Len(filesToFetch)
    /\ AfterBatch
    /\ IssueBatch(entries, filesToFetch, i + fcOpts.concurrency, fcOpts)
    /\ UNCHANGED <<pc, entries, fcOpts, filesToFetch, settleOrder, returned,
                   clientVars, repoVars>>

\* ... and the loop ends: the merged list is returned
FcReturn ==
    /\ pc = "fc_await"
    /\ inflight = {}
    /\ ~(i + fcOpts.concurrency < Len(filesToFetch))
    /\ AfterBatch
    /\ returned' = Merge(entries, results')
    /\ pc' = "fc_returned"
    /\ UNCHANGED <<entries, fcOpts, filesToFetch, inflight, responses,
                   batchResults, settleOrder, clientVars, httpLog, repoVars>>

NoOptions == [concurrency |-> 1, maxFileSize |-> DEFAULT_MAX_FILE_SIZE,
              filterShas |-> Null, onProgress |-> FALSE]

NoTree == [tree |-> <<>>, truncated |-> FALSE]

NoRepoOptions ==
    [branch |-> "main", token |-> "", extensions |-> <<>>, exclude |-> <<>>,
     include |-> <<>>, type |-> "all", content |-> FALSE, shas |-> Null,
     maxFileSize |-> DEFAULT_MAX_FILE_SIZE, concurrency |-> 1]

Idle ==
    /\ filesToFetch = <<>>
    /\ i = 0
    /\ completed = 0
    /\ results = << >>
    /\ inflight = {}
    /\ responses = << >>
    /\ batchResults = << >>
    /\ progress = << >>
    /\ settleOrder = <<>>
    /\ returned = NoList
    /\ rateLimit = Null
    /\ lastWithHeaders = NoHeaders
    /\ httpLog = <<>>
    /\ targetBranch = ""
    /\ tree = NoTree
    /\ result = Null
    /\ error = ""
    /\ answers = <<>>

\* fetchContent called on its own with any list and options
InitFetch ==
    /\ pc = "fc_call"
    /\ entries \in ListsOver(FetchPool, MaxEntries)
    /\ fcOpts \in [concurrency : 1..MaxConcurrency,
                   maxFileSize : {DEFAULT_MAX_FILE_SIZE},
                   filterShas : {Null, [null |-> FALSE, shas |-> {"x", "big"}]},
                   onProgress : BOOLEAN]
    /\ opts = NoRepoOptions
    /\ Idle

NextFetch == FcCall \/ BlobSettle \/ FcNextBatch \/ FcReturn

SpecFetch == InitFetch /\ [][NextFetch]_vars

\* fetchContent when every issued blob fetch eventually settles: the call is
\* made, each outstanding request is answered, and the event loop resumes
\* the function once Promise.allSettled has resolved
SpecFetchFair ==
    /\ InitFetch
    /\ [][NextFetch]_vars
    /\ WF_vars(FcCall)
    /\ WF_vars(BlobSettle)
    /\ WF_vars(FcNextBatch)
    /\ WF_vars(FcReturn)

(* ----------------------- GitHubClient and repofetch -------------------- *)
\* longest tree the server returns in Spec
MaxTreeItems == 2

Statuses == {200, 403, 404, 422, 500}

HeaderSets == {NoHeaders, HeadersA, HeadersPartial}

\* default_branch of the repository metadata
DefaultBranches == {"main", "trunk"}

\* rows of the recursive tree listing; "s/b" is a copy of "s/a.t"
TreeItemPool ==
    { TreeItem(<<"s">>, "tree", "d", NoSize),
      TreeItem(<<"s", "/", "a", ".", "t">>, "blob", "x", 5),
      TreeItem(<<"s", "/", "b">>, "blob", "x", 5),
      TreeItem(<<"a">>, "blob", "big", 20) }

TreeResponses ==
    [tree : ListsOver(TreeItemPool, MaxTreeItems), truncated : BOOLEAN]

\* get isAuthenticated
isAuthenticated(token) == token # ""

\* one received response: what was asked, the status, and default_branch
\* for a repository lookup
Answer(kind, status, branch) == [kind |-> kind, status |-> status, branch |-> branch]

\* a fallback taken on any failed lookup
NeedsFallback_AnyFailure(status) == ~Ok(status)

\* "if (!res.ok && (res.status === 404 || res.status === 422))"
NeedsFallback(status) == ~Ok(status) /\ (status = 404 \/ status = 422)

\* throw new Error(message)
Throw(message) ==
    /\ pc' = "failed"
    /\ error' = message
    /\ UNCHANGED <<entries, fcOpts, fetchVars, returned, httpLog, opts, tree,
                   result>>

\* fetch(...) of the given kind is issued and awaited at position next
Request(kind, next) ==
    /\ httpLog' = Append(httpLog, kind)
    /\ pc' = next
    /\ UNCHANGED <<entries, fcOpts, fetchVars, returned, opts, tree, result, error>>

\* a commit lookup that goes on to the tree request whatever its status
AfterCommit_Unchecked(status) == Request("tree", "tree")

\* getTree from "if (!res.ok)" after the commit lookup to the tree request
AfterCommit(status) ==
    IF ~Ok(status)
    THEN IF status = 403
         THEN Throw("GitHub API rate limit exceeded")
         ELSE Throw("Failed to get commit")
    ELSE Request("tree", "tree")

\* repofetch(repo, options): the client is made and getTree runs up to its
\* first await, the commit lookup for the requested branch
RepofetchCall ==
    /\ pc = "start"
    /\ targetBranch' = opts.branch
    /\ Request("commit", "commit1")
    /\ UNCHANGED <<clientVars, answers>>

\* the answer to the commit lookup for the requested branch
CommitResponse ==
    /\ pc = "commit1"
    /\ \E status \in Statuses, h \in HeaderSets :
        /\ Receive(h)
        /\ answers' = Append(answers, Answer("commit", status, ""))
        /\ IF NeedsFallback(status)
           THEN Request("repo", "repo")
           ELSE AfterCommit(status)
    /\ UNCHANGED targetBranch

\* the answer to the repository lookup of getDefaultBranch
RepoResponse ==
    /\ pc = "repo"
    /\ \E status \in Statuses, h \in HeaderSets, branch \in DefaultBranches :
        /\ Receive(h)
        /\ answers' = Append(answers, Answer("repo", status, branch))
        /\ IF ~Ok(status)
           THEN /\ IF status = 404 THEN Throw("Repository not found or is private")
                   ELSE IF status = 403 THEN Throw("GitHub API rate limit exceeded")
                   ELSE Throw("GitHub API error")
                /\ UNCHANGED targetBranch
           ELSE /\ targetBranch' = branch
                /\ Request("commit", "commit2")

\* the answer to the commit lookup for the default branch
RetryResponse ==
    /\ pc = "commit2"
    /\ \E status \in Statuses, h \in HeaderSets :
        /\ Receive(h)
        /\ answers' = Append(answers, Answer("commit", status, ""))
        /\ AfterCommit(status)
    /\ UNCHANGED targetBranch

\* shas?: string[] when it is given
ListOf(list) == [null |-> FALSE, list |-> list]

\* new Set(shas)
SetOf(list) == [null |-> FALSE, shas |-> Range(list)]

\* the options repofetch passes to filterTree
FilterOptions(o) ==
    [extensions |-> o.extensions, exclude |-> o.exclude, include |-> o.include,
     type |-> o.type, maxFileSize |-> IF o.content THEN o.maxFileSize ELSE NoSize]

\* the options repofetch passes to fetchContent
ContentOptions(o) ==
    [concurrency |-> o.concurrency, maxFileSize |-> o.maxFileSize,
     filterShas |-> IF o.shas # Null THEN SetOf(o.shas.list) ELSE Null,
     onProgress |-> FALSE]

\* "if (content || (shas && shas.length > 0))"
WantsContent(o) == o.content \/ (o.shas # Null /\ Len(o.shas.list) > 0)

\* the object repofetch returns
RepoFetchResult(branch, t, files) ==
    [repo |-> "octo/demo", branch |-> branch, truncated |-> t.truncated,
     files |-> files]

\* the answer to the tree request; on success getTree returns and repofetch
\* filters, sorts and either returns or enters fetchContent
TreeResponse ==
    /\ pc = "tree"
    /\ \E status \in Statuses, h \in HeaderSets, t \in TreeResponses :
        /\ Receive(h)
        /\ answers' = Append(answers, Answer("tree", status, ""))
        /\ IF ~Ok(status)
           THEN Throw("Failed to get tree")
           ELSE LET sorted == sortEntries(filterTree(t.tree, FilterOptions(opts)))
                IN  /\ tree' = t
                    /\ IF WantsContent(opts)
                       THEN /\ FcEnter(sorted, ContentOptions(opts))
                            /\ UNCHANGED <<result, opts, error>>
                       ELSE /\ entries' = sorted
                            /\ result' = RepoFetchResult(targetBranch, t, sorted)
                            /\ pc' = "done"
                            /\ UNCHANGED <<fcOpts, fetchVars, returned, httpLog,
                                           opts, error>>
    /\ UNCHANGED targetBranch

\* "entries = await fetchContent(...)" resumes and repofetch returns
RepofetchReturn ==
    /\ pc = "fc_returned"
    /\ result' = RepoFetchResult(targetBranch, tree, returned)
    /\ pc' = "done"
    /\ UNCHANGED <<entries, fcOpts, fetchVars, returned, clientVars, httpLog, opts,
                   targetBranch, tree, error, answers>>

Init ==
    /\ pc = "start"
    /\ entries = <<>>
    /\ fcOpts = NoOptions
    /\ opts \in [branch : {"main", "dev"},
                 token : {"", "ghp"},
                 extensions : {<<>>},
                 exclude : {<<>>},
                 include : {<<>>},
                 type : {"all", "file"},
                 content : BOOLEAN,
                 shas : {Null, ListOf(<<>>), ListOf(<<"x">>)},
                 maxFileSize : {DEFAULT_MAX_FILE_SIZE},
                 concurrency : {1, MaxConcurrency}]
    /\ Idle

Next ==
    \/ RepofetchCall
    \/ CommitResponse
    \/ RepoResponse
    \/ RetryResponse
    \/ TreeResponse
    \/ BlobSettle
    \/ FcNextBatch
    \/ FcReturn
    \/ RepofetchReturn

Spec == Init /\ [][Next]_vars

(* ------------------------- sortEntries on its own ---------------------- *)
SortCall ==
    /\ pc = "sort_call"
    /\ returned' = sortEntries(entries)
    /\ pc' = "sorted"
    /\ UNCHANGED <<entries, fcOpts, fetchVars, clientVars, httpLog, repoVars>>

InitSort ==
    /\ pc = "sort_call"
    /\ entries \in ListsOver(SortPool, MaxSortLen)
    /\ fcOpts = NoOptions
    /\ opts = NoRepoOptions
    /\ Idle

NextSort == SortCall

SpecSort == InitSort /\ [][NextSort]_vars

(* -------------------------- filterTree on its own ---------------------- *)
\* longest item list handed to filterTree in SpecFilter
MaxFilterItems == 2

\* rows handed to filterTree: a directory, files with a lower-case and an
\* upper-case extension, a name that ends in a dot and a dot-file; sizes
\* absent, zero, at and above the limits of FilterChoices
FilterItemPool ==
    { TreeItem(<<"s">>, "tree", "d", NoSize),
      TreeItem(<<"s", "/", "a", ".", "t", "s">>, "blob", "x", 5),
      TreeItem(<<"s", "/", "b", ".", "T", "S">>, "blob", "y", 20),
      TreeItem(<<"a", ".">>, "blob", "z", NoSize),
      TreeItem(<<".", "t", "s">>, "blob", "w", 0) }

\* values of the extensions option: none, [".ts"], ["ts", ".TS"], ["TS"]
ExtensionLists ==
    { <<>>, << <<".", "t", "s">> >>, << <<"t", "s">>, <<".", "T", "S">> >>,
      << <<"T", "S">> >> }

\* the filter controls of RepoFetchOptions: extension lists with and without
\* the dot and in either case, a glob and a substring pattern, every type
FilterChoices ==
    [branch : {"main"},
     token : {""},
     extensions : ExtensionLists,
     exclude : {<<>>, << <<"*", ".", "t", "s">> >>, << <<"a">> >>},
     include : {<<>>, << <<"s", "/", "*">> >>, << <<".">> >>},
     type : {"all", "file", "dir"},
     content : BOOLEAN,
     shas : {Null},
     maxFileSize : {0, 5},
     concurrency : {1}]

\* filterTree(items, {extensions, exclude, include, type, maxFileSize})
FilterCall ==
    /\ pc = "filter_call"
    /\ returned' = filterTree(entries, FilterOptions(opts))
    /\ pc' = "filtered"
    /\ UNCHANGED <<entries, fcOpts, fetchVars, clientVars, httpLog, repoVars>>

InitFilter ==
    /\ pc = "filter_call"
    /\ entries \in ListsOver(FilterItemPool, MaxFilterItems)
    /\ fcOpts = NoOptions
    /\ opts \in FilterChoices
    /\ Idle

NextFilter == FilterCall

SpecFilter == InitFilter /\ [][NextFilter]_vars

(* ------------------------ properties of sortEntries -------------------- *)
\* is the sequence x a strict prefix of the sequence y?
StrictPrefix(x, y) ==
    /\ Len(x) < Len(y)
    /\ \A k \in 1..Len(x) : x[k] = y[k]

PermutationsOf(list) ==
    { f \in ListsOver(Range(list), Len(list)) : Len(f) = Len(list) }

\* C4: an entry whose path segments are a strict prefix of another entry's
\* segments ("s" and "s/a") comes before that entry in the sorted output
C4_AncestorFirst ==
    pc = "sorted" =>
        \A p, q \in 1..Len(returned) :
            StrictPrefix(Split(returned[p].path), Split(returned[q].path)) => p < q

\* C5: every permutation of a list of entries with pairwise distinct paths
\* sorts to the same sequence
C5_PermutationInvariant ==
    pc = "sorted" =>
        \A perm \in PermutationsOf(entries) : sortEntries(perm) = returned

(* ------------------------ properties of fetchContent ------------------- *)
\* did the request for filesToFetch[k] succeed / fail?
Fetched(k) == k \in DOMAIN responses /\ Ok(responses[k].status)

\* the list as a function of the input and the per-request outcomes alone:
\* a file has content iff some request for its sha succeeded
OutcomeMerge ==
    [k \in 1..Len(entries) |->
        IF /\ entries[k].type = "file"
           /\ \E p \in 1..Len(filesToFetch) :
                  Fetched(p) /\ entries[filesToFetch[p]].sha = entries[k].sha
        THEN [entries[k] EXCEPT !.content = Base64Decode(BlobStore(entries[k].sha))]
        ELSE entries[k]]

\* C1: at every moment the number of blob fetches issued and not yet settled
\* is at most the concurrency limit
C1_ConcurrencyBound == Cardinality(inflight) <= fcOpts.concurrency

\* more qualifying files than the limit, and a full batch outstanding
C1_Witness ==
    /\ Len(filesToFetch) > fcOpts.concurrency
    /\ fcOpts.concurrency > 1
    /\ Cardinality(inflight) = fcOpts.concurrency

\* C2: fetchContent returns; each qualifying entry whose own fetch failed
\* comes back without content and each whose own fetch succeeded comes back
\* with the fetched body
C2_OwnOutcomeDecides ==
    pc = "fc_returned" =>
        \A k \in 1..Len(filesToFetch) :
            returned[filesToFetch[k]].content =
                IF Fetched(k) THEN Base64Decode(responses[k].content) ELSE NoContent

\* C6: the returned list has the length of the input, its entries carry the
\* path, type, sha and size of the input entries at the same positions, and
\* it is determined by the input and the per-request outcomes, whatever the
\* order in which the requests settled
C6_InputOrderKept ==
    pc = "fc_returned" =>
        /\ Len(returned) = Len(entries)
        /\ \A k \in 1..Len(entries) :
               /\ returned[k].path = entries[k].path
               /\ returned[k].type = entries[k].type
               /\ returned[k].sha = entries[k].sha
               /\ returned[k].size = entries[k].size
        /\ returned = OutcomeMerge

\* a batch of two different blobs settled in the reverse of input order
C6_Witness ==
    /\ pc = "fc_returned"
    /\ \E p, q \in 1..Len(settleOrder) :
           /\ p < q
           /\ settleOrder[p] > settleOrder[q]
           /\ entries[filesToFetch[settleOrder[p]]].sha
                  # entries[filesToFetch[settleOrder[q]]].sha
           /\ Fetched(settleOrder[p])

\* C7: the observer is called once per qualifying entry, the k-th call with
\* (k, M) and after at least k requests have settled, failures included; the
\* returned list does not depend on an observer being supplied
C7_ProgressCalls ==
    /\ \A k \in 1..Len(progress) :
           /\ progress[k][1] = k
           /\ progress[k][2] = Len(filesToFetch)
           /\ progress[k][3] >= k
    /\ ~fcOpts.onProgress => progress = <<>>
    /\ pc = "fc_returned" =>
           /\ fcOpts.onProgress => Len(progress) = Len(filesToFetch)
           /\ returned = OutcomeMerge

\* an observed run over two or more files in which a fetch failed
C7_Witness ==
    /\ pc = "fc_returned"
    /\ fcOpts.onProgress
    /\ Len(filesToFetch) >= 2
    /\ Len(progress) = Len(filesToFetch)
    /\ \E k \in 1..Len(filesToFetch) : ~Fetched(k)
    /\ \E k \in 1..Len(filesToFetch) : Fetched(k)

\* an entry that is not to be fetched, in the words of the selection rule
NotQualifying(e) ==
    \/ e.type = "directory"
    \/ e.size # NoSize /\ e.size > fcOpts.maxFileSize
    \/ fcOpts.filterShas # Null /\ e.sha \notin fcOpts.filterShas.shas

Issued(kind) == Cardinality({k \in 1..Len(httpLog) : httpLog[k] = kind})

\* C3: the default branch is looked up only after the first commit lookup
\* answered 404 or 422, at most once, and is followed by at most one more
\* commit lookup; a result after the retry names the default branch, a result
\* without fallback names the requested branch
C3_SingleFallback ==
    /\ Issued("repo") <= 1
    /\ Issued("commit") <= 2
    /\ Issued("repo") = 1 =>
           /\ answers[1].kind = "commit" /\ answers[1].status \in {404, 422}
           /\ httpLog[2] = "repo"
    /\ Issued("commit") = 2 =>
           /\ SubSeq(httpLog, 1, 3) = <<"commit", "repo", "commit">>
           /\ Ok(answers[2].status)
    /\ pc = "done" =>
           IF Issued("repo") = 1
           THEN result.branch = answers[2].branch
           ELSE result.branch = opts.branch /\ Ok(answers[1].status)

\* a result after a fallback to a default branch other than the one asked for
C3_Witness ==
    /\ pc = "done"
    /\ Issued("repo") = 1
    /\ Issued("commit") = 2
    /\ opts.branch = "dev"
    /\ result.branch = "main"

\* is the k-th tree-stage answer an error that no fallback recovers?
Unrecovered(k) ==
    /\ ~Ok(answers[k].status)
    /\ ~(k = 1 /\ answers[k].status \in {404, 422})

TreeStageDone ==
    answers # <<>> /\ answers[Len(answers)].kind = "tree"
                   /\ Ok(answers[Len(answers)].status)

\* C9: an unrecovered error of the tree stage makes repofetch fail, with no
\* result and no blob request; once the tree stage has succeeded repofetch
\* does not fail and goes on until it has returned a result, whatever the
\* blob requests answer
C9_ErrorPropagation ==
    /\ (\E k \in 1..Len(answers) : Unrecovered(k)) =>
           /\ pc = "failed"
           /\ error # ""
           /\ Unrecovered(Len(answers))
           /\ Len(httpLog) = Len(answers)
    /\ pc = "failed" =>
           /\ result = Null
           /\ Issued("blob") = 0
           /\ \E k \in 1..Len(answers) : Unrecovered(k)
    /\ TreeStageDone =>
           /\ pc # "failed"
           /\ error = ""
           /\ (pc = "done" \/ ENABLED Next)
           /\ pc = "done" => result # Null /\ Len(result.files) = Len(entries)

\* a result returned although every one of two or more blob requests failed
C9_Witness ==
    /\ pc = "done"
    /\ Issued("blob") >= 2
    /\ \A k \in DOMAIN responses : ~Ok(responses[k].status)

\* C10: a returned result carries the client's rate-limit snapshot as it
\* stands after the last exchange, and its authentication flag
C10_ResultCarriesClientState ==
    pc = "done" =>
        /\ "rateLimit" \in DOMAIN result
        /\ result.rateLimit = rateLimit
        /\ "isAuthenticated" \in DOMAIN result
        /\ result.isAuthenticated = isAuthenticated(opts.token)

(* ---------------------- properties of the GitHubClient ----------------- *)
\* the four values of one response h, as a RateLimitInfo
SnapshotOf(h) ==
    [limit |-> parseInt(h.limit), remaining |-> parseInt(h.remaining),
     used |-> parseInt(h.used), reset |-> parseInt(h.reset) * 1000]

\* C11: in every reachable state the rate-limit snapshot is empty when no
\* response with the four rate-limit headers has been received, and otherwise
\* holds the four values of the latest response that carried them; a response
\* without them does not change it
C11_SnapshotFromOneResponse ==
    IF CarriesRateLimit(lastWithHeaders)
    THEN rateLimit = SnapshotOf(lastWithHeaders)
    ELSE rateLimit = Null

\* one blob request of a group of two is still outstanding, the other was
\* answered without the full headers, and the snapshot is still the one an
\* earlier response left
C11_Witness ==
    /\ pc = "fc_await"
    /\ Cardinality(inflight) = 1
    /\ Len(settleOrder) = 1
    /\ ~CarriesRateLimit(responses[settleOrder[1]].headers)
    /\ rateLimit = SnapshotOf(HeadersA)

\* the error kind a thrown message stands for
ErrorKind(message) ==
    CASE message = "GitHub API rate limit exceeded" -> "RateLimited"
      [] message = "Repository not found or is private" -> "NotFound"
      [] OTHER -> "UpstreamError"

\* the kind the claim gives to a failed exchange of the given kind and status
ClaimedKind(kind, status) ==
    IF status = 403 THEN "RateLimited"
    ELSE IF kind = "repo" /\ status = 404 THEN "NotFound"
    ELSE "UpstreamError"

\* C12: whichever exchange failed (repository metadata, commit lookup, tree
\* fetch, blob fetch), a 403 makes the call fail as RateLimited and any other
\* non-2xx status that does not start the fallback makes it fail as NotFound
\* (404 on the repository metadata) or as the generic upstream error
C12_ErrorKinds ==
    /\ pc = "failed" =>
           ErrorKind(error) = ClaimedKind(answers[Len(answers)].kind,
                                          answers[Len(answers)].status)
    /\ \A p \in DOMAIN batchResults :
           batchResults[p].status = "rejected" =>
               ErrorKind(batchResults[p].reason) =
                   ClaimedKind("blob", responses[p].status)

(* ------------------------- properties of filterTree -------------------- *)
\* does the path match at least one pattern of the list?
MatchesSome(filePath, patterns) ==
    \E k \in 1..Len(patterns) : matchesPattern(filePath, patterns[k])

\* C13: with a non-empty include list and a non-empty exclude list, an item
\* that matches an include pattern and an exclude pattern is not output, and
\* every entry output comes from an item that matches some include pattern
\* and no exclude pattern
C13_ExcludeWins ==
    (pc = "filtered" /\ Len(opts.include) > 0 /\ Len(opts.exclude) > 0) =>
        /\ \A k \in 1..Len(entries) :
               (/\ MatchesSome(entries[k].path, opts.include)
                /\ MatchesSome(entries[k].path, opts.exclude))
               => ToEntry(entries[k]) \notin Range(returned)
        /\ \A e \in Range(returned) :
               \E k \in 1..Len(entries) :
                   /\ ToEntry(entries[k]) = e
                   /\ MatchesSome(entries[k].path, opts.include)
                   /\ ~MatchesSome(entries[k].path, opts.exclude)

\* one item matched both lists and is gone, another matched an include
\* pattern only and was output
C13_Witness ==
    /\ pc = "filtered"
    /\ Len(opts.include) > 0
    /\ Len(opts.exclude) > 0
    /\ \E k \in 1..Len(entries) :
           /\ MatchesSome(entries[k].path, opts.include)
           /\ MatchesSome(entries[k].path, opts.exclude)
    /\ returned # <<>>

\* an extension list with each value lower-cased and given its leading dot
Normalized(E) ==
    [k \in 1..Len(E) |->
        IF E[k] # <<>> /\ Head(E[k]) = "." THEN ToLowerCase(E[k])
        ELSE <<".">> \o ToLowerCase(E[k])]

\* the options of the call with another extension list
WithExtensions(o, E) == [FilterOptions(o) EXCEPT !.extensions = E]

\* C14: filterTree with an extension list E returns what it returns with the
\* normalized list (each value lower-cased, a dot prefixed where missing), and
\* so with any list that normalizes to the same set; a file is kept only if
\* its lower-cased extension is in the normalized set; a directory is output
\* with E exactly when it is output without an extension list
C14_NormalizedExtensions ==
    pc = "filtered" =>
        /\ returned = filterTree(entries,
                                 WithExtensions(opts, Normalized(opts.extensions)))
        /\ \A E \in ExtensionLists :
               Range(Normalized(E)) = Range(Normalized(opts.extensions))
               => returned = filterTree(entries, WithExtensions(opts, E))
        /\ Len(opts.extensions) > 0 =>
               \A e \in Range(returned) :
                   e.type = "file" =>
                       ToLowerCase(extname(e.path))
                           \in Range(Normalized(opts.extensions))
        /\ \A k \in 1..Len(entries) :
               entries[k].type = "tree" =>
                   (ToEntry(entries[k]) \in Range(returned)
                    <=> ToEntry(entries[k]) \in
                            Range(filterTree(entries, WithExtensions(opts, <<>>))))

\* the list is not in normal form, a file with an upper-case extension was
\* kept and a directory was output
C14_Witness ==
    /\ pc = "filtered"
    /\ opts.extensions # Normalized(opts.extensions)
    /\ \E e \in Range(returned) :
           e.type = "file" /\ extname(e.path) # ToLowerCase(extname(e.path))
    /\ \E e \in Range(returned) : e.type = "directory"

\* the options of the call with no maximum size
WithoutMaxFileSize(o) == [FilterOptions(o) EXCEPT !.maxFileSize = NoSize]

\* C15: when a maximum size B >= 0 is supplied (0 included), of the items
\* that pass the other filters filterTree drops exactly the files whose size
\* is present and greater than B; files without a size and directories pass
C15_SizeLimit ==
    (pc = "filtered" /\ FilterOptions(opts).maxFileSize # NoSize) =>
        \A k \in 1..Len(entries) :
            ToEntry(entries[k])
                \in Range(filterTree(entries, WithoutMaxFileSize(opts)))
            => (ToEntry(entries[k]) \notin Range(returned)
                <=> (/\ entries[k].type = "blob"
                     /\ entries[k].size # NoSize
                     /\ entries[k].size > FilterOptions(opts).maxFileSize))

\* positions of "." in the final segment of a path
DotsOf(filePath) == {k \in 1..Len(basename(filePath)) : basename(filePath)[k] = "."}

\* what follows the last "." of the final segment (<<>> when there is no ".")
SuffixAfterLastDot(filePath) ==
    IF DotsOf(filePath) = {} THEN <<>>
    ELSE SubSeq(basename(filePath),
                (CHOOSE k \in DotsOf(filePath) : \A j \in DotsOf(filePath) : j <= k) + 1,
                Len(basename(filePath)))

\* C16: an entry filterTree produced has its extension set exactly when it is
\* a file whose final path segment has a non-empty suffix after its last ".",
\* and the extension is then "." followed by that suffix in lower case
C16_ExtensionField ==
    pc = "filtered" =>
        \A e \in Range(returned) :
            /\ e.extension # Undefined
                   <=> (e.type = "file" /\ SuffixAfterLastDot(e.path) # <<>>)
            /\ e.extension # Undefined =>
                   e.extension = <<".">> \o ToLowerCase(SuffixAfterLastDot(e.path))

(* ------------------- properties of the groups of fetchContent ---------- *)
\* how often position k of filesToFetch has settled
TimesSettled(k) == Cardinality({p \in 1..Len(settleOrder) : settleOrder[p] = k})

\* C17: the qualifying entries are taken in input order and requested in
\* consecutive groups of N (the last may be smaller); every request issued
\* belongs to one entry, no entry is requested twice, whatever its outcome;
\* and while a group is outstanding every request of the groups before it has
\* settled, so a group is issued only after the one before has fully settled
C17_GroupsInOrder ==
    pc \in {"fc_await", "fc_returned"} =>
        LET N      == fcOpts.concurrency
            total  == Len(filesToFetch)
            issued == Min(i + N, total)
        IN  /\ \A p, q \in 1..total : p < q => filesToFetch[p] < filesToFetch[q]
            /\ Range(filesToFetch) =
                   {k \in 1..Len(entries) : ~NotQualifying(entries[k])}
            /\ i % N = 0
            /\ DOMAIN responses = 1..issued
            /\ Issued("blob") = issued
            /\ inflight \subseteq (i + 1)..issued
            /\ \A k \in 1..issued :
                   TimesSettled(k) = IF k \in inflight THEN 0 ELSE 1
            /\ \A k \in 1..Len(settleOrder) : settleOrder[k] \in 1..issued
            /\ pc = "fc_returned" => (issued = total /\ inflight = {})

\* three qualifying entries went out as a group of two and a group of one,
\* a request of the first group failed and was not repeated
C17_Witness ==
    /\ pc = "fc_returned"
    /\ fcOpts.concurrency = 2
    /\ Len(filesToFetch) = 3
    /\ ~Ok(responses[1].status)
    /\ Issued("blob") = 3

(* ----------------------- properties of repofetch ----------------------- *)
\* "a non-empty shas allow-set is supplied"
AllowSetGiven == opts.shas # Null /\ Len(opts.shas.list) > 0

\* an entry whose body the options ask for: a file within the maximum size
\* and, when an allow-set is given, with its object id in the set
Due(e) ==
    /\ e.type = "file"
    /\ ~(e.size # NoSize /\ e.size > opts.maxFileSize)
    /\ (AllowSetGiven => e.sha \in Range(opts.shas.list))

\* C18: blob requests come after every other request and only once the tree
\* response has arrived and the entries are filtered and sorted; they are
\* for files of that list (with content false and an allow-set, for object
\* ids of the set only); and they are issued if and only if content is true
\* or a non-empty allow-set is given, that is: never without, and with it as
\* soon as the list holds an entry whose body is asked for
C18_BlobsAfterTree ==
    /\ \A p, q \in 1..Len(httpLog) :
           (httpLog[p] = "blob" /\ httpLog[q] # "blob") => q < p
    /\ Issued("blob") > 0 =>
           /\ TreeStageDone
           /\ opts.content \/ AllowSetGiven
           /\ entries = sortEntries(filterTree(tree.tree, FilterOptions(opts)))
           /\ \A k \in DOMAIN responses :
                  /\ filesToFetch[k] \in 1..Len(entries)
                  /\ entries[filesToFetch[k]].type = "file"
                  /\ (~opts.content =>
                         entries[filesToFetch[k]].sha \in Range(opts.shas.list))
    /\ (/\ pc \in {"fc_await", "fc_returned", "done"}
        /\ opts.content \/ AllowSetGiven
        /\ \E k \in 1..Len(entries) : Due(entries[k]))
       => Issued("blob") > 0

(* -------------------- termination of fetchContent ---------------------- *)
\* C19: with N >= 1 and every issued blob fetch settling in the end,
\* fetchContent returns in the end, having issued as many blob fetches as
\* there are qualifying entries; and whenever the loop index moves it moves
\* by N
C19_Terminates ==
    /\ <>(/\ pc = "fc_returned"
           /\ Issued("blob") =
                  Cardinality({k \in 1..Len(entries) : ~NotQualifying(entries[k])}))
    /\ [][i' # i => i' = i + fcOpts.concurrency]_vars

\* three qualifying entries with N = 1: three groups, then the return
C19_Witness ==
    /\ pc = "fc_returned"
    /\ fcOpts.concurrency = 1
    /\ i = 3
    /\ Issued("blob") = 3

====
